---- MODULE Spec2Model ----
(***************************************************************************)
(* reload_config: watch_changes (src/src/lib.rs) and RecursiveMode         *)
(* (src/src/recursive.rs).                                                 *)
(*                                                                         *)
(* The model has four kinds of process:                                    *)
(*   - the caller of watch_changes (parse the mode, spawn, return Ok);     *)
(*   - the watch thread (the `loop` body of lib.rs:62-115);                *)
(*   - reader threads that lock the shared Arc<Mutex<C>> and read it;      *)
(*   - the environment: the watched file and the notify backend that       *)
(*     sends Result<Event, Error> items on the watcher's channel.          *)
(***************************************************************************)
EXTENDS Integers, Sequences, FiniteSets, TLC

\* ------------------------------------------------------------------ bounds
NumReaders == 1
MaxQueue == 1
MaxWrites == 2

\* ------------------------------------------------------------- data model
\* The mode strings a caller may pass (lib.rs:54); only the first two parse.
ModeStrings == {"recursive", "nonrecursive", "Recursive", ""}

\* File states: one of the two well-formed contents the test writes
\* (lib.rs:150-153 and lib.rs:169-172), a malformed content, or no file.
SomeData == 0
OtherData == 1
Malformed == -1
Absent == -2
Contents == {SomeData, OtherData}
FileStates == Contents \cup {Malformed, Absent}

\* The test's Config { test, val } (lib.rs:131-135), as <<test, val>>.
Cfg(c) == <<c, c>>
NoCfg == <<-9, -9>>
\* The value the caller puts in the cell before calling watch_changes
\* (lib.rs:155: Config::load() of the initial file).
InitialCfg == Cfg(SomeData)

\* notify::EventKind tags an event can carry.  Modify has sub-kinds
\* (data, metadata); is_modify() is true of all of them.
EventKinds == {"access", "create", "modify_data", "modify_metadata", "remove", "other"}
\* An item on the channel is Ok(event of some kind) or Err(notify error).
ErrorItem == "error"

\* Reader threads of the host that can be alive at the same time.
Readers == 1..NumReaders
NoHolder == 0
WatchHolder == -1

VARIABLES
    mode,        \* the mode string passed to watch_changes
    cpc,         \* caller: "start", "spawned", "returned"
    result,      \* what watch_changes returned: "none", "Ok", "Err"
    wmode,       \* notify::RecursiveMode captured by the thread, or "none"
    wpc,         \* watch thread position
    bound,       \* a watcher is bound to the path
    connected,   \* the channel's sender (held by the watcher) is alive
    chan,        \* items queued on the current channel
    file,        \* the watched file
    cell,        \* the value inside the Mutex
    lockHolder,  \* NoHolder, WatchHolder or a reader
    poisoned,    \* the Mutex is poisoned
    ev,          \* what recv returned in this iteration, or "none"
    pending,     \* new_config: the value f() returned in this iteration
    rpc,         \* reader positions
    seen,        \* what each reader read under the lock
    \* history (not read by the program)
    lastOk,         \* the latest value a loader call returned, or InitialCfg
    loaded,         \* all values successful loader calls returned
    lastOutcome,    \* the latest loader call: "none", "running", "ok", "err"
    nonAccess,      \* an item other than an access event was delivered
    everBound,      \* some watcher has been bound to the path
    writes,         \* number of content writes so far
    lateWrite,      \* a content write happened after watch_changes returned Ok
    orderly,        \* every content write so far changed the content and
                    \* was made after the Ok, while the cell showed the
                    \* file's content of the time
    everBad         \* the file has been malformed or absent at some time

vars == <<mode, cpc, result, wmode, wpc, bound, connected, chan, file, cell,
          lockHolder, poisoned, ev, pending, rpc, seen, lastOk, loaded,
          lastOutcome, nonAccess, everBound, writes, lateWrite,
          orderly, everBad>>

callerVars == <<mode, cpc, result>>
readerVars == <<rpc, seen>>
watchVars == <<wmode, wpc, ev, pending>>
watcherVars == <<bound, connected, chan>>
lockVars == <<lockHolder, poisoned>>
loaderHist == <<lastOk, loaded, lastOutcome>>
envHist == <<nonAccess, writes, lateWrite, orderly, everBad>>

\* ------------------------------------------------------------ recursive.rs
\* from_str as it would be if it compared case-insensitively.
FromStr_IgnoreCase(s) ==
    IF s \in {"recursive", "Recursive"} THEN "Recursive"
    ELSE IF s = "nonrecursive" THEN "NonRecursive"
    ELSE "ParseError"

\* RecursiveMode::from_str (recursive.rs:11-20).
FromStr(s) ==
    IF s = "recursive" THEN "Recursive"
    ELSE IF s = "nonrecursive" THEN "NonRecursive"
    ELSE "ParseError"

\* RecursiveMode::convert (recursive.rs:31-36).
Convert(m) ==
    IF m = "Recursive" THEN "notify::Recursive" ELSE "notify::NonRecursive"

\* ------------------------------------------------------------------ lib.rs
\* EventKind::is_modify / is_create / is_remove as used at lib.rs:91-93.
IsModify(k) == k \in {"modify_data", "modify_metadata"}
IsCreate(k) == k = "create"
IsRemove(k) == k = "remove"

\* The condition without its is_remove() arm.
IsReloadWorthy_NoRemove(k) == IsModify(k) \/ IsCreate(k)

\* The condition with the access test the comment at lib.rs:77-90 says was
\* tried before.
IsReloadWorthy_WithAccess(k) ==
    IsModify(k) \/ IsCreate(k) \/ IsRemove(k) \/ k = "access"

\* The condition of lib.rs:91-93.
IsReloadWorthy(k) == IsModify(k) \/ IsCreate(k) \/ IsRemove(k)

\* The loader f: Config::load of lib.rs:138-146.  File::open fails on an
\* absent file, serde_yaml fails on a malformed one.
LoaderResult(f) == IF f \in Contents THEN Cfg(f) ELSE NoCfg
LoaderSucceeds(f) == f \in Contents

\* ------------------------------------------------------------------- Init
\* The state when watch_changes is called: the caller has built the cell
\* from the initial file (lib.rs:154-158); no thread, watcher or channel.
Init ==
    /\ mode \in ModeStrings
    /\ cpc = "start"
    /\ result = "none"
    /\ wmode = "none"
    /\ wpc = "unspawned"
    /\ bound = FALSE
    /\ connected = FALSE
    /\ chan = <<>>
    /\ file = SomeData
    /\ cell = InitialCfg
    /\ lockHolder = NoHolder
    /\ poisoned = FALSE
    /\ pending = NoCfg
    /\ rpc = [r \in Readers |-> "idle"]
    /\ seen = [r \in Readers |-> NoCfg]
    /\ lastOk = InitialCfg
    /\ loaded = {}
    /\ lastOutcome = "none"
    /\ ev = "none"
    /\ nonAccess = FALSE
    /\ everBound = FALSE
    /\ writes = 0
    /\ lateWrite = FALSE
    /\ orderly = TRUE
    /\ everBad = FALSE

\* ------------------------------------------------- the caller, lib.rs:52-117
\* lib.rs:61: from_str fails and `?` returns the error; nothing is spawned.
CallParseFail ==
    /\ cpc = "start"
    /\ FromStr(mode) = "ParseError"
    /\ cpc' = "returned"
    /\ result' = "Err"
    /\ UNCHANGED <<mode, watchVars, watcherVars, file, cell, lockVars,
                   readerVars, loaderHist, everBound, envHist>>

\* The spawn as it would be if the library initialised the cell itself.
CallSpawn_InitCell ==
    /\ cpc = "start"
    /\ FromStr(mode) # "ParseError"
    /\ wmode' = Convert(FromStr(mode))
    /\ wpc' = "new_watcher"
    /\ cpc' = "spawned"
    /\ cell' = NoCfg
    /\ UNCHANGED <<mode, result, ev, pending, watcherVars, file, lockVars,
                   readerVars, loaderHist, everBound, envHist>>

\* lib.rs:61-62: the mode parses, is converted and moved into the spawned
\* thread, which starts at the top of the loop.
CallSpawn ==
    /\ cpc = "start"
    /\ FromStr(mode) # "ParseError"
    /\ wmode' = Convert(FromStr(mode))
    /\ wpc' = "new_watcher"
    /\ cpc' = "spawned"
    /\ UNCHANGED <<mode, result, ev, pending, watcherVars, file, cell, lockVars,
                   readerVars, loaderHist, everBound, envHist>>

\* The return as it would be if the caller waited for the first watcher.
CallReturnOk_AfterWatcher ==
    /\ cpc = "spawned"
    /\ everBound
    /\ cpc' = "returned"
    /\ result' = "Ok"
    /\ UNCHANGED <<mode, watchVars, watcherVars, file, cell, lockVars,
                   readerVars, loaderHist, everBound, envHist>>

\* lib.rs:116: Ok(()) is returned after the spawn, whatever the thread does.
CallReturnOk ==
    /\ cpc = "spawned"
    /\ cpc' = "returned"
    /\ result' = "Ok"
    /\ UNCHANGED <<mode, watchVars, watcherVars, file, cell, lockVars,
                   readerVars, loaderHist, everBound, envHist>>

\* ------------------------------------------- the watch thread, lib.rs:62-115
\* The end of the loop body as it would be if watcher and channel were
\* kept for the next iteration.
EndIteration_KeepWatcher ==
    /\ wpc' = "recv"
    /\ UNCHANGED <<bound, connected, chan>>
    /\ ev' = "none"
    /\ pending' = NoCfg

\* The end of the loop body (lib.rs:114-115): watcher and rx are dropped,
\* whatever is still queued is lost, and the loop starts over.
EndIteration ==
    /\ wpc' = "new_watcher"
    /\ bound' = FALSE
    /\ connected' = FALSE
    /\ chan' = <<>>
    /\ ev' = "none"
    /\ pending' = NoCfg

\* A panic in the thread (expect at lib.rs:66, 69; unwrap at lib.rs:103):
\* the thread unwinds, dropping the watcher and rx, and never runs again.
Panic(where) ==
    /\ wpc' = where
    /\ bound' = FALSE
    /\ connected' = FALSE
    /\ chan' = <<>>
    /\ ev' = "none"
    /\ pending' = NoCfg

\* lib.rs:63-66: a fresh channel and a watcher holding its sender.
NewWatcherOk ==
    /\ wpc = "new_watcher"
    /\ wpc' = "watch"
    /\ connected' = TRUE
    /\ chan' = <<>>
    /\ UNCHANGED <<callerVars, wmode, ev, pending, bound, file, cell, lockVars,
                   readerVars, loaderHist, everBound, envHist>>

\* lib.rs:66: RecommendedWatcher::new fails (the backend cannot be
\* initialised); expect panics.
NewWatcherFail ==
    /\ wpc = "new_watcher"
    /\ Panic("panicked_watcher")
    /\ UNCHANGED <<callerVars, wmode, file, cell, lockVars, readerVars,
                   loaderHist, everBound, envHist>>

\* lib.rs:67-69: the watcher is bound to the path, which must exist.
WatchOk ==
    /\ wpc = "watch"
    /\ file # Absent
    /\ bound' = TRUE
    /\ everBound' = TRUE
    /\ wpc' = "recv"
    /\ UNCHANGED <<callerVars, wmode, ev, pending, connected, chan, file, cell,
                   lockVars, readerVars, loaderHist, envHist>>

\* The failing bind as it would be if the watcher were acquired with the
\* cell's guard alive: the panic would poison the mutex.
WatchFail_HoldingGuard ==
    /\ wpc = "watch"
    /\ file = Absent
    /\ Panic("panicked_watcher")
    /\ poisoned' = TRUE
    /\ UNCHANGED <<callerVars, wmode, file, cell, lockHolder, readerVars,
                   loaderHist, everBound, envHist>>

\* lib.rs:67-69: watch fails on a path that does not exist; expect panics.
WatchFail ==
    /\ wpc = "watch"
    /\ file = Absent
    /\ Panic("panicked_watcher")
    /\ UNCHANGED <<callerVars, wmode, file, cell, lockVars, readerVars,
                   loaderHist, everBound, envHist>>

\* lib.rs:71: rx.recv() returns the item at the head of the channel.
RecvItem ==
    /\ wpc = "recv"
    /\ chan # <<>>
    /\ ev' = Head(chan)
    /\ chan' = Tail(chan)
    /\ wpc' = "match"
    /\ UNCHANGED <<callerVars, wmode, pending, bound, connected, file, cell,
                   lockVars, readerVars, loaderHist, everBound, envHist>>

\* lib.rs:71-73: rx.recv() fails: the channel is empty and its sender is
\* gone.
RecvDisconnected ==
    /\ wpc = "recv"
    /\ chan = <<>>
    /\ ~connected
    /\ ev' = "disconnected"
    /\ wpc' = "match"
    /\ UNCHANGED <<callerVars, wmode, pending, watcherVars, file, cell,
                   lockVars, readerVars, loaderHist, everBound, envHist>>

\* The handler as it would be with the lock taken before the loader runs.
MatchReloadWorthy_LockFirst ==
    /\ wpc = "match"
    /\ ev \in EventKinds
    /\ IsReloadWorthy(ev)
    /\ lockHolder = NoHolder
    /\ ~poisoned
    /\ lockHolder' = WatchHolder
    /\ wpc' = "load"
    /\ lastOutcome' = "running"
    /\ UNCHANGED <<callerVars, wmode, ev, pending, watcherVars, file, cell,
                   poisoned, readerVars, lastOk, loaded, everBound, envHist>>

\* lib.rs:74-96: Ok(Ok(e)) with a kind that passes the test of
\* lib.rs:91-93; the loader f is called (and is now executing).
MatchReloadWorthy ==
    /\ wpc = "match"
    /\ ev \in EventKinds
    /\ IsReloadWorthy(ev)
    /\ wpc' = "load"
    /\ lastOutcome' = "running"
    /\ UNCHANGED <<callerVars, wmode, ev, pending, watcherVars, file, cell,
                   lockVars, readerVars, lastOk, loaded, everBound, envHist>>

\* The ignoring arm as it would be if it reset the cell to the value the
\* session started with.
MatchIgnored_Reset ==
    /\ wpc = "match"
    /\ ev \in EventKinds
    /\ ~IsReloadWorthy(ev)
    /\ EndIteration
    /\ cell' = InitialCfg
    /\ UNCHANGED <<callerVars, wmode, file, lockVars, readerVars,
                   loaderHist, everBound, envHist>>

\* lib.rs:74-110: Ok(Ok(e)) with any other kind; nothing is done and the
\* iteration ends.
MatchIgnored ==
    /\ wpc = "match"
    /\ ev \in EventKinds
    /\ ~IsReloadWorthy(ev)
    /\ EndIteration
    /\ UNCHANGED <<callerVars, wmode, file, cell, lockVars, readerVars,
                   loaderHist, everBound, envHist>>

\* The error arm as it would be if the event were unwrapped.
MatchErrorEvent_Unwrap ==
    /\ wpc = "match"
    /\ ev = ErrorItem
    /\ Panic("panicked_watcher")
    /\ UNCHANGED <<callerVars, wmode, file, cell, lockVars, readerVars,
                   loaderHist, everBound, envHist>>

\* lib.rs:111: Ok(Err(e)); the error is logged and the iteration ends.
MatchErrorEvent ==
    /\ wpc = "match"
    /\ ev = ErrorItem
    /\ EndIteration
    /\ UNCHANGED <<callerVars, wmode, file, cell, lockVars, readerVars,
                   loaderHist, everBound, envHist>>

\* lib.rs:113: Err(e) from recv; the error is logged and the iteration
\* ends.
MatchRecvError ==
    /\ wpc = "match"
    /\ ev = "disconnected"
    /\ EndIteration
    /\ UNCHANGED <<callerVars, wmode, file, cell, lockVars, readerVars,
                   loaderHist, everBound, envHist>>

\* lib.rs:96-97: f() returns Ok(new_config); the swap is next.
LoaderOk ==
    /\ wpc = "load"
    /\ LoaderSucceeds(file)
    /\ pending' = LoaderResult(file)
    /\ lastOk' = LoaderResult(file)
    /\ loaded' = loaded \cup {LoaderResult(file)}
    /\ lastOutcome' = "ok"
    /\ wpc' = "lock"
    /\ UNCHANGED <<callerVars, wmode, ev, watcherVars, file, cell, lockVars,
                   readerVars, everBound, envHist>>

\* The error arm as it would be if it blanked the cell.
LoaderErr_Blank ==
    /\ wpc = "load"
    /\ ~LoaderSucceeds(file)
    /\ EndIteration
    /\ lastOutcome' = "err"
    /\ cell' = NoCfg
    /\ UNCHANGED <<callerVars, wmode, file, lockVars, readerVars,
                   lastOk, loaded, everBound, envHist>>

\* lib.rs:105-107: f() returns Err; it is logged and the iteration ends.
LoaderErr ==
    /\ wpc = "load"
    /\ ~LoaderSucceeds(file)
    /\ EndIteration
    /\ lastOutcome' = "err"
    /\ UNCHANGED <<callerVars, wmode, file, cell, lockVars, readerVars,
                   lastOk, loaded, everBound, envHist>>

\* The swap as it would be without mutual exclusion: the thread goes on to
\* the assignment whether or not a reader holds the guard.
LockAcquire_NoExclusion ==
    /\ wpc = "lock"
    /\ ~poisoned
    /\ lockHolder' = IF lockHolder = NoHolder THEN WatchHolder ELSE lockHolder
    /\ wpc' = "assign_test"
    /\ UNCHANGED <<callerVars, wmode, ev, pending, watcherVars, file, cell,
                   poisoned, readerVars, loaderHist, everBound, envHist>>

\* lib.rs:103: cfg.lock() returns the guard once the mutex is free.
LockAcquire ==
    /\ wpc = "lock"
    /\ lockHolder = NoHolder
    /\ ~poisoned
    /\ lockHolder' = WatchHolder
    /\ wpc' = "assign_test"
    /\ UNCHANGED <<callerVars, wmode, ev, pending, watcherVars, file, cell,
                   poisoned, readerVars, loaderHist, everBound, envHist>>

\* lib.rs:103: cfg.lock() returns Err(PoisonError) on a poisoned mutex and
\* unwrap panics; the guard inside the error is dropped.
LockPoisoned ==
    /\ wpc = "lock"
    /\ lockHolder = NoHolder
    /\ poisoned
    /\ Panic("panicked_lock")
    /\ UNCHANGED <<callerVars, wmode, file, cell, lockVars, readerVars,
                   loaderHist, everBound, envHist>>

\* lib.rs:103: `*guard = new_config` stores the struct field by field; the
\* first field is written.
AssignFirst ==
    /\ wpc = "assign_test"
    /\ cell' = <<pending[1], cell[2]>>
    /\ wpc' = "assign_val"
    /\ UNCHANGED <<callerVars, wmode, ev, pending, watcherVars, file, lockVars,
                   readerVars, loaderHist, everBound, envHist>>

\* The assignment as it would be if the second field were not stored.
AssignRest_Partial ==
    /\ wpc = "assign_val"
    /\ cell' = cell
    /\ lockHolder' = NoHolder
    /\ EndIteration
    /\ UNCHANGED <<callerVars, wmode, file, poisoned, readerVars,
                   loaderHist, everBound, envHist>>

\* lib.rs:103-104: the second field is written, the temporary guard is
\* dropped at the end of the statement, and the iteration ends.
AssignRest ==
    /\ wpc = "assign_val"
    /\ cell' = pending
    /\ lockHolder' = NoHolder
    /\ EndIteration
    /\ UNCHANGED <<callerVars, wmode, file, poisoned, readerVars,
                   loaderHist, everBound, envHist>>

WatchThread ==
    \/ NewWatcherOk \/ NewWatcherFail \/ WatchOk \/ WatchFail
    \/ RecvItem \/ RecvDisconnected
    \/ MatchReloadWorthy \/ MatchIgnored \/ MatchErrorEvent \/ MatchRecvError
    \/ LoaderOk \/ LoaderErr
    \/ LockAcquire \/ LockPoisoned \/ AssignFirst \/ AssignRest

\* --------------------------------------------------------- reader threads
\* A reader as in lib.rs:157-158, 175-176: cfg.lock().unwrap(), then a read
\* of the fields through the guard, then the guard is dropped.
ReaderLock(r) ==
    /\ rpc[r] = "idle"
    /\ lockHolder = NoHolder
    /\ ~poisoned
    /\ lockHolder' = r
    /\ rpc' = [rpc EXCEPT ![r] = "locked"]
    /\ UNCHANGED <<callerVars, watchVars, watcherVars, file, cell, poisoned,
                   seen, loaderHist, everBound, envHist>>

\* lock() on a poisoned mutex returns Err and the reader's unwrap panics.
ReaderLockPoisoned(r) ==
    /\ rpc[r] = "idle"
    /\ lockHolder = NoHolder
    /\ poisoned
    /\ rpc' = [rpc EXCEPT ![r] = "dead"]
    /\ UNCHANGED <<callerVars, watchVars, watcherVars, file, cell, lockVars,
                   seen, loaderHist, everBound, envHist>>

ReaderRead(r) ==
    /\ rpc[r] = "locked"
    /\ seen' = [seen EXCEPT ![r] = cell]
    /\ rpc' = [rpc EXCEPT ![r] = "read"]
    /\ UNCHANGED <<callerVars, watchVars, watcherVars, file, cell, lockVars,
                   loaderHist, everBound, envHist>>

ReaderUnlock(r) ==
    /\ rpc[r] = "read"
    /\ lockHolder' = NoHolder
    /\ rpc' = [rpc EXCEPT ![r] = "idle"]
    /\ seen' = [seen EXCEPT ![r] = NoCfg]
    /\ UNCHANGED <<callerVars, watchVars, watcherVars, file, cell, poisoned,
                   loaderHist, everBound, envHist>>

\* A reader panics while it holds the guard: the guard's drop during
\* unwinding releases the lock and poisons the mutex (what lock().unwrap()
\* at lib.rs:103 then trips over).
ReaderPanic(r) ==
    /\ rpc[r] \in {"locked", "read"}
    /\ lockHolder' = NoHolder
    /\ poisoned' = TRUE
    /\ rpc' = [rpc EXCEPT ![r] = "dead"]
    /\ seen' = [seen EXCEPT ![r] = NoCfg]
    /\ UNCHANGED <<callerVars, watchVars, watcherVars, file, cell,
                   loaderHist, everBound, envHist>>

\* The host starts another reader thread in place of one that has died.
ReaderStart(r) ==
    /\ rpc[r] = "dead"
    /\ rpc' = [rpc EXCEPT ![r] = "idle"]
    /\ UNCHANGED <<callerVars, watchVars, watcherVars, file, cell, lockVars,
                   seen, loaderHist, everBound, envHist>>

Reader ==
    \E r \in Readers :
        \/ ReaderLock(r) \/ ReaderLockPoisoned(r) \/ ReaderRead(r)
        \/ ReaderUnlock(r) \/ ReaderPanic(r) \/ ReaderStart(r)

\* ------------------------------------- the environment: file and backend
\* The backend can queue one more item (the channel is unbounded,
\* lib.rs:63; MaxQueue caps it here).
CanEmit == (bound /\ connected) => Len(chan) < MaxQueue

\* The backend sends an item on the channel of the watcher that is bound
\* to the path, if there is one (lib.rs:66-69).
Emit(item) ==
    /\ chan' = IF bound /\ connected THEN Append(chan, item) ELSE chan
    /\ nonAccess' = (nonAccess \/ (bound /\ connected /\ item # "access"))

\* The file's content is overwritten (lib.rs:173).
FileWrite ==
    /\ file # Absent
    /\ writes < MaxWrites
    /\ CanEmit
    /\ \E c \in Contents \cup {Malformed} :
        /\ file' = c
        /\ everBad' = (everBad \/ c = Malformed)
    /\ writes' = writes + 1
    /\ lateWrite' = (lateWrite \/ result = "Ok")
    /\ orderly' = (orderly /\ result = "Ok" /\ cell = Cfg(file) /\ file' # file)
    /\ Emit("modify_data")
    /\ UNCHANGED <<callerVars, watchVars, bound, connected, cell, lockVars,
                   readerVars, loaderHist, everBound>>

\* The file's metadata is touched (or it is saved with no change); the
\* content stays.
FileTouch ==
    /\ file # Absent
    /\ CanEmit
    /\ Emit("modify_metadata")
    /\ UNCHANGED <<callerVars, watchVars, bound, connected, file, cell,
                   lockVars, readerVars, loaderHist, everBound, writes,
                   lateWrite, orderly, everBad>>

\* The file is opened and closed without a write.
FileAccess ==
    /\ file # Absent
    /\ CanEmit
    /\ Emit("access")
    /\ UNCHANGED <<callerVars, watchVars, bound, connected, file, cell,
                   lockVars, readerVars, loaderHist, everBound, writes,
                   lateWrite, orderly, everBad>>

FileRemove ==
    /\ file # Absent
    /\ CanEmit
    /\ file' = Absent
    /\ everBad' = TRUE
    /\ Emit("remove")
    /\ UNCHANGED <<callerVars, watchVars, bound, connected, cell, lockVars,
                   readerVars, loaderHist, everBound, writes, lateWrite, orderly>>

FileCreate ==
    /\ file = Absent
    /\ CanEmit
    /\ \E c \in Contents : file' = c
    /\ Emit("create")
    /\ UNCHANGED <<callerVars, watchVars, bound, connected, cell, lockVars,
                   readerVars, loaderHist, everBound, writes, lateWrite,
                   orderly, everBad>>

\* The backend reports an event of a kind it cannot classify.
BackendOther ==
    /\ bound /\ connected
    /\ CanEmit
    /\ Emit("other")
    /\ UNCHANGED <<callerVars, watchVars, bound, connected, file, cell,
                   lockVars, readerVars, loaderHist, everBound, writes,
                   lateWrite, orderly, everBad>>

\* The backend reports an error: Err(e) is sent on the channel.
BackendError ==
    /\ bound /\ connected
    /\ CanEmit
    /\ Emit(ErrorItem)
    /\ UNCHANGED <<callerVars, watchVars, bound, connected, file, cell,
                   lockVars, readerVars, loaderHist, everBound, writes,
                   lateWrite, orderly, everBad>>

\* The backend's event loop dies and drops the sender.
BackendDisconnect ==
    /\ connected
    /\ wpc = "recv"
    /\ connected' = FALSE
    /\ UNCHANGED <<callerVars, watchVars, bound, chan, file, cell, lockVars,
                   readerVars, loaderHist, everBound, envHist>>

Environment ==
    \/ FileWrite \/ FileTouch \/ FileAccess \/ FileRemove \/ FileCreate
    \/ BackendOther \/ BackendError \/ BackendDisconnect

Caller == CallParseFail \/ CallSpawn \/ CallReturnOk

Next == Caller \/ WatchThread \/ Reader \/ Environment

Spec == Init /\ [][Next]_vars

TypeOK ==
    /\ mode \in ModeStrings
    /\ cpc \in {"start", "spawned", "returned"}
    /\ result \in {"none", "Ok", "Err"}
    /\ wmode \in {"none", "notify::Recursive", "notify::NonRecursive"}
    /\ wpc \in {"unspawned", "new_watcher", "watch", "recv", "match", "load", "lock",
                "assign_test", "assign_val", "panicked_watcher", "panicked_lock"}
    /\ bound \in BOOLEAN /\ connected \in BOOLEAN
    /\ Len(chan) <= MaxQueue
    /\ file \in FileStates
    /\ lockHolder \in {NoHolder, WatchHolder} \cup Readers
    /\ writes \in 0..MaxWrites

\* A reader that holds the lock moves on: it reads, and drops the guard.
ReaderRelease(r) == ReaderRead(r) \/ ReaderUnlock(r) \/ ReaderPanic(r)

\* Scheduling: every thread that can run does run; a thread blocked in
\* lock() gets the mutex if it is free again and again.  The environment
\* (file operations, backend failures) is under no obligation.
FairSpec ==
    /\ Spec
    /\ WF_vars(Caller)
    /\ WF_vars(WatchThread)
    /\ SF_vars(LockAcquire \/ LockPoisoned)
    /\ \A r \in Readers : WF_vars(ReaderRelease(r))

Panicked == wpc \in {"panicked_watcher", "panicked_lock"}

\* ----------------------------------------------------------------- claims
Swapping == wpc \in {"assign_test", "assign_val"}
ValidCfgs == {InitialCfg} \cup loaded

\* C1: retain on failure.  The step in which the loader call returns an
\* error leaves the cell as it was and the lock untouched (and not in the
\* loop's hands); the loop takes the lock, and the cell changes, only in a
\* swap whose loader call succeeded, so until then every read returns the
\* value the cell had.
C1_RetainOnFailure ==
    [][ /\ (wpc = "load" /\ lastOutcome' = "err") =>
              /\ cell' = cell
              /\ lockHolder # WatchHolder
              /\ lockHolder' = lockHolder
              /\ poisoned' = poisoned
        /\ (lockHolder' = WatchHolder /\ lockHolder # WatchHolder) =>
              lastOutcome = "ok"
        /\ cell' # cell =>
              /\ lastOutcome = "ok"
              /\ pending \in loaded
              /\ lockHolder = WatchHolder
        /\ \A r \in Readers :
              seen'[r] # seen[r] => seen'[r] \in {cell, NoCfg} ]_vars

\* A loader call has failed after an earlier one had put OtherData in the
\* cell, and a reader reads OtherData.
C1_Witness ==
    /\ lastOutcome = "err"
    /\ wpc = "new_watcher"
    /\ cell = Cfg(OtherData)
    /\ \E r \in Readers : seen[r] = Cfg(OtherData)

\* C2: reload on content change.  In a session that watch_changes started
\* with Ok, with a loader that has always been able to succeed, once the
\* file's content has been changed exactly once after the Ok and the watch
\* thread is alive, the cell eventually holds, and keeps, the configuration
\* of the file's content.
C2_ReloadOnContentChange ==
    <>[]((result = "Ok" /\ writes = 1 /\ lateWrite /\ ~everBad /\ ~Panicked)
            => cell = Cfg(file))

\* C3: setup errors are synchronous.  When the first watcher of the session
\* could not be established, watch_changes has returned a failure.
C3_SetupErrorsSynchronous ==
    (cpc = "returned" /\ wpc = "panicked_watcher" /\ ~everBound)
        => result = "Err"

C5_NoReloadOnPureAccess ==
    ~nonAccess =>
        /\ lastOutcome = "none"
        /\ wpc \notin {"load", "lock", "assign_test", "assign_val"}
        /\ cell = InitialCfg
        /\ \A r \in Readers : seen[r] \in {NoCfg, InitialCfg}

\* The loop has received an access event, a further one is queued, and a
\* reader reads the cell.
C5_Witness ==
    /\ ~nonAccess
    /\ wpc = "match"
    /\ ev = "access"
    /\ chan = <<"access">>
    /\ \E r \in Readers : seen[r] = InitialCfg

\* C6: mode resolution.  Exactly "recursive" and "nonrecursive" parse, to
\* the two distinct modes, each converted to the primitive mode of the same
\* name; with any other string watch_changes returns the error, no thread
\* is spawned, no watcher is created, the loader is not called and the
\* cell is not written.
C6_ModeResolution ==
    /\ FromStr("recursive") # FromStr("nonrecursive")
    /\ (mode = "recursive" /\ cpc # "start") =>
            (wmode = "notify::Recursive" /\ result # "Err")
    /\ (mode = "nonrecursive" /\ cpc # "start") =>
            (wmode = "notify::NonRecursive" /\ result # "Err")
    /\ mode \notin {"recursive", "nonrecursive"} =>
            /\ wmode = "none"
            /\ wpc = "unspawned"
            /\ ~bound /\ ~connected /\ ~everBound
            /\ lastOutcome = "none"
            /\ cell = InitialCfg
            /\ result # "Ok"
            /\ cpc \in {"start", "returned"}
            /\ cpc = "returned" => result = "Err"

\* watch_changes has returned the error for a mode that differs from a
\* valid one only in case.
C6_Witness ==
    /\ mode = "Recursive"
    /\ cpc = "returned"
    /\ result = "Err"

\* C7: the watch loop stops only on a watcher-acquisition failure.
C7_StopsOnlyOnWatcherFailure ==
    Panicked => wpc = "panicked_watcher"

\* C8: cell invariant.  Whenever the loop waits for an event, the cell holds
\* the value of the latest successful loader call of the session, or the
\* initial value if there was none; it is never blank.
C8_CellInvariant ==
    wpc = "recv" =>
        /\ cell = lastOk
        /\ cell # NoCfg
        /\ loaded = {} => cell = InitialCfg

\* The loop waits again after a reload that put OtherData in the cell.
C8_Witness ==
    /\ wpc = "recv"
    /\ lastOutcome = "ok"
    /\ cell = Cfg(OtherData)

\* C9: reader/writer non-interference.  Every value a reader reads is the
\* initial value or a value a successful loader call returned, whole; a
\* reader never holds the lock while the loop is assigning.
C9_NonInterference ==
    /\ \A r \in Readers : seen[r] # NoCfg => seen[r] \in ValidCfgs
    /\ \A r \in Readers : rpc[r] \in {"locked", "read"} =>
            (lockHolder = r /\ ~Swapping /\ cell \in ValidCfgs)
    /\ Swapping => lockHolder = WatchHolder

\* A reader holds the lock and has read the pre-swap value while the loop,
\* with the new value in hand, waits for the lock.
C9_Witness ==
    /\ wpc = "lock"
    /\ pending = Cfg(OtherData)
    /\ \E r \in Readers : rpc[r] = "read" /\ seen[r] = InitialCfg

C11_InitialValuePreserved ==
    lastOutcome = "none" =>
        /\ cell = InitialCfg
        /\ lockHolder # WatchHolder
        /\ \A r \in Readers : seen[r] \in {NoCfg, InitialCfg}

\* No reload-worthy event has been handled, the file's content has changed
\* unnoticed, the loop is handling an error event, and a reader reads the
\* initial value.
C11_Witness ==
    /\ lastOutcome = "none"
    /\ file = OtherData
    /\ wpc = "match"
    /\ ev = ErrorItem
    /\ \E r \in Readers : seen[r] = InitialCfg

\* C12: transient delivery errors are non-fatal and cause no reload.  The
\* step that handles an error event, or a failed receive, calls no loader,
\* leaves the cell and the lock alone, does not end the thread, and drops
\* watcher and channel so that the loop goes on to create fresh ones.
C12_DeliveryErrorsNonFatal ==
    [][ (wpc = "match" /\ ev \in {ErrorItem, "disconnected"} /\ wpc' # wpc) =>
            /\ wpc' = "new_watcher"
            /\ cell' = cell
            /\ lastOutcome' = lastOutcome
            /\ loaded' = loaded
            /\ lockHolder' = lockHolder
            /\ ~bound' /\ ~connected' /\ chan' = <<>> ]_vars

\* The loop is handling an error event in a session that has reloaded
\* OtherData before.
C12_Witness ==
    /\ wpc = "match"
    /\ ev = ErrorItem
    /\ lastOutcome = "ok"
    /\ cell = Cfg(OtherData)

\* C13: watch_changes returns without waiting for the session.  Once the
\* thread is spawned the caller can return, whatever the thread has or has
\* not done, and what it returns for a mode that parsed is Ok.
C13_ReturnsWithoutWaiting ==
    /\ cpc = "spawned" => ENABLED CallReturnOk
    /\ (cpc = "returned" /\ FromStr(mode) # "ParseError") => result = "Ok"
    /\ result = "Ok" => wpc # "unspawned"

\* Ok has been returned while the thread has not created its first
\* watcher.
C13_Witness ==
    /\ result = "Ok"
    /\ wpc = "new_watcher"
    /\ ~everBound
    /\ lastOutcome = "none"

\* C14: multiple sequential reloads.  In a session started with Ok, with a
\* loader that has always been able to succeed and a watch thread that is
\* alive (and no reader has poisoned the mutex), when the file's content
\* has been changed two or more times, each time only after the cell showed
\* the content of the time, the cell eventually holds, and keeps, the
\* configuration of the last content.
C14_SequentialReloads ==
    <>[]((result = "Ok" /\ writes >= 2 /\ orderly /\ ~everBad /\ ~Panicked
            /\ ~poisoned)
            => cell = Cfg(file))

\* C15: sole writer and frame.  The cell changes only in the assignment
\* that follows a successful loader call made for a reload-worthy event in
\* the same iteration, under the loop's lock, and the assignment leaves in
\* the cell exactly the value that call returned; no other step of the
\* loop, and no reader, changes the cell.
C15_SoleWriterFrame ==
    [][ /\ cell' # cell =>
              /\ Swapping
              /\ lockHolder = WatchHolder
              /\ ev \in EventKinds /\ IsReloadWorthy(ev)
              /\ lastOutcome = "ok"
              /\ pending = lastOk
              /\ cell' \in {<<pending[1], cell[2]>>, pending}
        /\ (Swapping /\ ~Swapping') => cell' = lastOk
        /\ ~Swapping => cell' = cell ]_vars

\* The assignment is under way: the first field holds the new value, the
\* second still the old one.
C15_Witness ==
    /\ wpc = "assign_val"
    /\ pending = Cfg(OtherData)
    /\ cell = <<OtherData, SomeData>>

\* C16: readers cannot stall the watch loop beyond their critical
\* sections.  Readers that hold the lock let go of it (fairness of
\* ReaderRelease), so once the loader has returned a new value and the loop
\* asks for the lock, the loop eventually gets it and completes the swap.
C16_ReadersCannotStall ==
    (wpc = "lock") ~> (wpc = "new_watcher" /\ cell = lastOk)

\* C17: a session-fatal failure leaves the cell usable.  The step in which
\* a watcher acquisition fails touches neither the cell nor the mutex; from
\* then on the thread does not hold the lock, the cell holds the latest
\* successfully loaded value (or the initial one) and keeps it, and a
\* reader that finds the mutex free and sound can lock it.
C17_FatalLeavesCellUsable ==
    [][ /\ (wpc # "panicked_watcher" /\ wpc' = "panicked_watcher") =>
              /\ wpc \in {"new_watcher", "watch"}
              /\ UNCHANGED <<cell, lockHolder, poisoned>>
              /\ lockHolder # WatchHolder
              /\ cell = lastOk
              /\ cell \in ValidCfgs
        /\ wpc = "panicked_watcher" =>
              /\ cell' = cell
              /\ cell = lastOk
              /\ lockHolder # WatchHolder /\ lockHolder' # WatchHolder
              /\ \A r \in Readers :
                    (rpc[r] = "idle" /\ lockHolder = NoHolder /\ ~poisoned)
                        => ENABLED ReaderLock(r) ]_vars

\* The session has died at a watcher acquisition after its first watcher
\* had been bound and OtherData had been reloaded, and a reader reads
\* OtherData from the sound mutex.
C17_Witness ==
    /\ wpc = "panicked_watcher"
    /\ everBound
    /\ lastOutcome = "ok"
    /\ cell = Cfg(OtherData)
    /\ ~poisoned
    /\ \E r \in Readers : rpc[r] = "read" /\ seen[r] = Cfg(OtherData)

\* C18: one event per watcher instance.  A watcher is bound, and items are
\* queued, only from the bind of an iteration to its end; an iteration
\* takes at most one item off its channel and calls the loader at most
\* once; when the iteration ends whatever is still queued is discarded with
\* the channel, and the next iteration starts with no watcher and an empty
\* channel.
C18_OneEventPerWatcher ==
    [][ /\ (wpc \in {"unspawned", "new_watcher", "watch"} \/ Panicked) =>
              (~bound /\ chan = <<>> /\ ev = "none")
        /\ chan' # chan =>
              \/ wpc = "recv" /\ ev = "none" /\ chan # <<>>
                    /\ ev' = Head(chan) /\ chan' = Tail(chan)
                    /\ wpc' = "match"
              \/ bound /\ connected /\ Len(chan') = Len(chan) + 1 /\ wpc' = wpc
              \/ chan' = <<>> /\ wpc' \in {"new_watcher", "panicked_lock"}
        /\ (ev # "none" /\ wpc' # wpc) => wpc' # "recv"
        /\ (lastOutcome' = "running" /\ lastOutcome # "running") =>
              (wpc = "match" /\ wpc' = "load")
        /\ wpc = "load" => lastOutcome' \in {"running", "ok", "err"}
                             /\ (lastOutcome' # "running" => wpc' # "load")
        /\ (wpc \in {"match", "load", "assign_val"} /\ wpc' = "new_watcher") =>
              (~bound' /\ ~connected' /\ chan' = <<>> /\ ev' = "none") ]_vars

\* The loader is running for the one item this iteration received while a
\* further event waits on the same channel; it will be discarded.
C18_Witness ==
    /\ wpc = "load"
    /\ ev = "modify_metadata"
    /\ chan = <<"modify_data">>
    /\ file = OtherData

====
